---- MODULE Spec2Model ----
(***************************************************************************)
(* A model of package oop (src/oop.go, src/friendly.go): the runtime type  *)
(* descriptors, the Klass handle and its lifecycle, and the reflection     *)
(* based casts.                                                            *)
(*                                                                         *)
(* A Go type is a record [n, d]: the named base type n behind d levels of  *)
(* pointer indirection.  A Go value held in an interface{} is a record     *)
(* [t, v]: its dynamic type and one machine word v, which is the single    *)
(* field of a struct, the number of an int, the address held by a pointer  *)
(* (0 is nil) or the identity of a slice, map, chan or func (0 is nil).    *)
(* Memory is heap: one cell per address, holding the value stored there.   *)
(***************************************************************************)
EXTENDS Integers, Sequences, FiniteSets, TLC

VARIABLES
  heap,         \* [Addr -> value]: the storage at each address
  alloc,        \* the addresses in use
  ret,          \* the last call of Cast, As or IsNil: arguments and result
  infos,        \* the ClassInfo records created so far, in creation order
  klasses,      \* the Klass handles created by New, in creation order
  pending,      \* per caller: the call of New it is inside, if any
  kret,         \* the last call of Ptr, From or Deinit: arguments and result
  deinitCalls,  \* per handle: the calls of Deinit made on it
  hookRuns,     \* per handle: the runs of its ClassInfo.Deinit hook
  releases,     \* per handle: the releases of its Class through the allocator
  wrappers,     \* the ObjectWrappers created so far, in creation order
  wret          \* the last call on the factory or on a wrapper

vars == <<heap, alloc, ret, infos, klasses, pending, kret, deinitCalls,
          hookRuns, releases, wrappers, wret>>
wrapVars == <<wrappers, wret>>
castVars == <<heap, alloc, ret>>
klassVars == <<infos, klasses, pending, kret, deinitCalls, hookRuns, releases>>

\* ------------------------------------------------------------------ bounds
MaxAddr == 2      \* addresses 1..MaxAddr; 0 is the nil address
MaxVal == 1       \* field contents 0..MaxVal
MaxDepth == 2     \* levels of pointer indirection of the types drawn as inputs
MaxKlass == 2     \* handles created by New
MaxInfos == 3     \* descriptors created by makeClassInfo
NumCallers == 2   \* concurrent callers of New
MaxDeinit == 2    \* calls of Deinit on one handle
MaxCalls == 1     \* calls of Cast, As, IsNil, Ptr or From in one behaviour
MaxWrap == 2      \* wrappers created

Addr == 1..MaxAddr
Vals == 0..MaxVal

\* ------------------------------------------------------------------- types
\* The struct types of the tests: TestStruct and TestStruct2 declare GetValue
\* on the pointer receiver.  ValStruct stands for a struct type that declares
\* GetValue on the value receiver.
StructNames == {"TestStruct", "TestStruct2", "ValStruct"}
\* nil-able kinds other than pointers, and unsafe.Pointer
RefNames == {"slice", "map", "chan", "func"}
IfaceNames == {"TestInterface", "NonImplementedInterface"}
TypeNames == <<"TestStruct", "TestStruct2", "ValStruct", "int",
               "slice", "map", "chan", "func", "unsafeptr",
               "TestInterface", "NonImplementedInterface">>

NoType == [n |-> "nil", d |-> 0]
Named(n) == [n |-> n, d |-> 0]

\* reflect.PtrTo and Type.Elem on a pointer type
PtrTo(t) == [t EXCEPT !.d = @ + 1]
ElemT(t) == [t EXCEPT !.d = @ - 1]

\* Type.Kind
Kind(t) ==
  IF t.d > 0 THEN "ptr"
  ELSE IF t.n \in StructNames THEN "struct"
  ELSE IF t.n \in IfaceNames THEN "interface"
  ELSE t.n

\* Type.Name: the empty string for an unnamed (pointer) type
TypeName(t) == IF t.d > 0 THEN "" ELSE t.n

\* The address of the runtime type record, which reflect.ValueOf(t).Pointer()
\* returns: one per type, fixed for the life of the process.
RtypeAddr(t) ==
  (CHOOSE i \in 1..Len(TypeNames) : TypeNames[i] = t.n) * 10 + t.d

\* Methods declared on the value receiver and on the pointer receiver.
ValueMethods(n) == IF n = "ValStruct" THEN {"GetValue"} ELSE {}
PointerMethods(n) == IF n \in {"TestStruct", "TestStruct2"} THEN {"GetValue"} ELSE {}
IfaceMethods(n) ==
  IF n = "TestInterface" THEN {"GetValue"}
  ELSE IF n = "NonImplementedInterface" THEN {"NonExistentMethod"}
  ELSE {}

\* The method set of a type (Go specification): T has the value-receiver
\* methods, *T has both, an interface has its own, every other pointer none.
MethodSet(t) ==
  IF t.d = 0 THEN
    IF t.n \in IfaceNames THEN IfaceMethods(t.n) ELSE ValueMethods(t.n)
  ELSE IF t.d = 1 /\ t.n \notin IfaceNames THEN
    ValueMethods(t.n) \cup PointerMethods(t.n)
  ELSE {}

\* Type.Implements(u) for an interface type u (it panics for any other u;
\* the callers below model the panic).
Implements(t, u) == IfaceMethods(u.n) \subseteq MethodSet(t)

\* Type.AssignableTo(u): identical types, or u an interface t implements.
\* (Every type here is named or a pointer to a named type, so two distinct
\* types never share an underlying type.)
AssignableTo(t, u) ==
  \/ t = u
  \/ Kind(u) = "interface" /\ Implements(t, u)

\* ------------------------------------------------------------------ values
NilAny == [t |-> NoType, v |-> 0]

IsPtr(x) == x.t.d > 0

\* A reflect.Value: valid is FALSE for the zero Value; addr is the address
\* of the storage when the Value is addressable and 0 when it is not.
ZeroRV == [valid |-> FALSE, val |-> NilAny, addr |-> 0]

\* reflect.ValueOf
ValueOf(x) ==
  IF x = NilAny THEN ZeroRV ELSE [valid |-> TRUE, val |-> x, addr |-> 0]

\* Value.Elem on a pointer: the zero Value for a nil pointer, else the
\* addressable pointee, read at the pointer's element type.
RElem(rv) ==
  IF rv.val.v = 0 THEN ZeroRV
  ELSE [valid |-> TRUE,
        val |-> [t |-> ElemT(rv.val.t), v |-> heap[rv.val.v].v],
        addr |-> rv.val.v]

\* The free addresses, and the one the allocator hands out next (the lowest:
\* an address is only ever compared for identity).
FreeAddrs == Addr \ alloc
FreshAddr ==
  IF FreeAddrs = {} THEN 0
  ELSE CHOOSE a \in FreeAddrs : \A b \in FreeAddrs : a <= b

\* -------------------------------------------------------------------- Cast
\* The result of a cast: fault is a panic; copy says that the cell at the
\* fresh address was allocated and filled with a copy of the argument.
CastResult(fault, res, copy) == [fault |-> fault, res |-> res, copy |-> copy]
CastPanic == CastResult(TRUE, NilAny, FALSE)
CastNone == CastResult(FALSE, NilAny, FALSE)

\* oop.go:213 and 218: the calls that panic.  Type() of the zero Value
\* (obj is nil), Implements of a type that is no interface, and Type() of
\* the zero Value that Elem() of a nil pointer returns.
CastPanics(obj, targetType) ==
  \/ ~ValueOf(obj).valid
  \/ Kind(targetType) # "interface"
  \/ /\ ~Implements(obj.t, targetType)
     /\ Kind(obj.t) = "ptr"
     /\ ~RElem(ValueOf(obj)).valid

\* oop.go:213: the object's own type implements the interface
CastDirect(obj, targetType) == Implements(obj.t, targetType)

\* oop.go:218: a pointer whose element type implements the interface
CastElem(obj, targetType) ==
  Kind(obj.t) = "ptr" /\ Implements(ElemT(obj.t), targetType)

\* oop.go:223: a value whose pointer type implements the interface
CastAddr(obj, targetType) ==
  Kind(obj.t) # "ptr" /\ Implements(PtrTo(obj.t), targetType)

\* oop.go:214 and 219: objValue.Interface(), the object as it came.
\* CastKeepElem is the variant that hands back the pointed-to element instead.
CastKeepElem(obj) ==
  CastResult(FALSE, IF IsPtr(obj) THEN RElem(ValueOf(obj)).val ELSE obj, FALSE)
CastKeep(obj) == CastResult(FALSE, obj, FALSE)

\* oop.go:226-229: the pointer to the copy in new storage
CastCopyPtr(obj, fresh) == [t |-> PtrTo(obj.t), v |-> fresh]

\* oop.go:227 and 256: newValue.Set(objValue), the contents of the copy.
\* SetCopyZero is the variant that leaves the new cell zeroed.
SetCopyZero(obj) == [obj EXCEPT !.v = 0]
SetCopy(obj) == obj

\* Cast(obj, targetType); fresh is the address reflect.New returns if called.
Cast(obj, targetType, fresh) ==
  IF CastPanics(obj, targetType) THEN CastPanic
  ELSE IF CastDirect(obj, targetType) THEN CastKeep(obj)
  ELSE IF CastElem(obj, targetType) THEN CastKeep(obj)
  ELSE IF CastAddr(obj, targetType) THEN
    CastResult(FALSE, CastCopyPtr(obj, fresh), TRUE)
  ELSE IF AssignableTo(obj.t, targetType) THEN CastResult(FALSE, obj, FALSE)
  ELSE CastNone

\* ---------------------------------------------------------------------- As
\* oop.go:244-249: ValueOf, and Elem if it is a pointer
AsDeref(obj) ==
  IF Kind(obj.t) = "ptr" THEN RElem(ValueOf(obj)) ELSE ValueOf(obj)

\* oop.go:254: the storage the result points to
AsStorage(rv, fresh) == IF rv.addr = 0 THEN fresh ELSE rv.addr

\* As(obj, targetType).  Type() panics on the zero Value (obj nil or a nil
\* pointer); Convert panics unless *T converts to *targetType, which for an
\* assignable T fails exactly when targetType is an interface.
As(obj, targetType, fresh) ==
  LET rv == AsDeref(obj) IN
  IF ~rv.valid THEN CastPanic
  ELSE IF AssignableTo(rv.val.t, targetType) THEN
    IF rv.val.t # targetType THEN CastPanic
    ELSE CastResult(FALSE,
                    [t |-> PtrTo(targetType), v |-> AsStorage(rv, fresh)],
                    rv.addr = 0)
  ELSE CastNone

\* ------------------------------------------------------------------- IsNil
\* oop.go:313-319: the kinds whose values can be nil
NilableKinds == {"chan", "func", "interface", "map", "ptr", "slice"}

\* oop.go:303-320: IsNil.  IsNilOrZero is the variant that ignores the kind
\* and calls every zero value nil.
IsNilOrZero(obj) == obj = NilAny \/ obj.v = 0
IsNil(obj) ==
  IF obj = NilAny THEN TRUE
  ELSE IF Kind(obj.t) \in NilableKinds THEN obj.v = 0
  ELSE FALSE

\* ------------------------------------------------------ calling a method
\* GetValue through a value that satisfies TestInterface: oop_test.go:19
\* (TestStruct returns Value), oop_test.go:29 (TestStruct2 returns Value * 2);
\* ValStruct returns its Value.  -1 stands for the nil-dereference panic.
GetValue(x) ==
  IF IsPtr(x) /\ x.v = 0 THEN -1
  ELSE LET f == IF IsPtr(x) THEN heap[x.v].v ELSE x.v IN
       IF x.t.n = "TestStruct2" THEN f * 2 ELSE f

\* ------------------------------------------------- the casts' state machine
NoRet ==
  [op |-> "none", obj |-> NilAny, target |-> NoType, src |-> 0,
   fault |-> FALSE, res |-> NilAny, copy |-> FALSE, isNil |-> FALSE,
   pre |-> {}, calls |-> 0, static |-> NoType]

\* The values a caller can hold: nil, plain values, slices, maps, chans,
\* funcs and unsafe pointers (nil or not), nil pointers and pointers to the
\* objects that exist.
PlainValues ==
  {[t |-> Named(n), v |-> v] : n \in StructNames \cup {"int"}, v \in Vals}
RefValues ==
  {[t |-> Named(n), v |-> v] : n \in RefNames \cup {"unsafeptr"}, v \in 0..1}
PointerValues ==
  {[t |-> PtrTo(heap[a].t), v |-> a] : a \in alloc}
  \cup {[t |-> [n |-> n, d |-> d], v |-> 0] :
          n \in StructNames \cup IfaceNames, d \in 1..MaxDepth}
InputValues == {NilAny} \cup PlainValues \cup PointerValues
AllValues == InputValues \cup RefValues

\* A value as the caller holds it in a variable of static type st: of its
\* own type, or of an interface type it implements; a variable of interface
\* type can also be nil.
StaticValues ==
  {[st |-> x.t, dyn |-> x] : x \in AllValues \ {NilAny}}
  \cup {sv \in [st : {Named(i) : i \in IfaceNames}, dyn : AllValues] :
          sv.dyn = NilAny \/ Implements(sv.dyn.t, sv.st)}

\* Passing a variable as an interface{} argument: the dynamic value of an
\* interface variable (nil for a nil one), the value itself otherwise.
ToAny(sv) == sv.dyn

TargetTypes ==
  {[n |-> n, d |-> d] :
     n \in StructNames \cup IfaceNames \cup {"int"}, d \in 0..(MaxDepth - 1)}

InitHeap ==
  /\ heap = [a \in Addr |-> NilAny]
  /\ alloc = {}
  /\ ret = NoRet

\* The caller creates an object: x := T{Value: v}
AllocStruct ==
  \E n \in StructNames, v \in Vals :
    LET a == FreshAddr IN
    /\ a # 0
    /\ heap' = [heap EXCEPT ![a] = [t |-> Named(n), v |-> v]]
    /\ alloc' = alloc \cup {a}
    /\ UNCHANGED ret

\* The caller creates a pointer variable: p := &x
AllocPointer ==
  \E b \in alloc :
    LET a == FreshAddr IN
    /\ a # 0
    /\ heap[b].t.d + 1 < MaxDepth
    /\ heap' = [heap EXCEPT ![a] = [t |-> PtrTo(heap[b].t), v |-> b]]
    /\ alloc' = alloc \cup {a}
    /\ UNCHANGED ret

\* The caller assigns to the field of an object: x.Value = v
WriteField ==
  \E a \in alloc, v \in Vals :
    /\ Kind(heap[a].t) = "struct"
    /\ v # heap[a].v
    /\ heap' = [heap EXCEPT ![a].v = v]
    /\ UNCHANGED <<alloc, ret>>

\* The state a cast leaves: the copy, if one was made, in the fresh cell.
AfterCast(op, obj, targetType, src, fresh, r) ==
  /\ r.copy => fresh # 0
  /\ heap' = IF r.copy THEN [heap EXCEPT ![fresh] = SetCopy(obj)] ELSE heap
  /\ alloc' = IF r.copy THEN alloc \cup {fresh} ELSE alloc
  /\ ret' = [op |-> op, obj |-> obj, target |-> targetType, src |-> src,
             fault |-> r.fault, res |-> r.res, copy |-> r.copy,
             isNil |-> FALSE, pre |-> alloc, calls |-> ret.calls + 1,
             static |-> NoType]

\* A call Cast(obj, targetType).  src is the caller's variable that holds the
\* value passed (0: the argument is a temporary).
CastStep ==
  /\ ret.calls < MaxCalls
  /\ \E obj \in InputValues, targetType \in TargetTypes :
    \E src \in {0} \cup {a \in alloc : heap[a] = obj} :
      AfterCast("Cast", obj, targetType, src, FreshAddr,
                Cast(obj, targetType, FreshAddr))

\* A call As(obj, targetType)
AsStep ==
  /\ ret.calls < MaxCalls
  /\ \E obj \in InputValues, targetType \in TargetTypes :
    \E src \in {0} \cup {a \in alloc : heap[a] = obj} :
      AfterCast("As", obj, targetType, src, FreshAddr,
                As(obj, targetType, FreshAddr))

\* A call IsNil(obj)
IsNilStep ==
  /\ ret.calls < MaxCalls
  /\ \E sv \in StaticValues :
    /\ ret' = [NoRet EXCEPT !.op = "IsNil", !.obj = ToAny(sv),
                            !.isNil = IsNil(ToAny(sv)), !.pre = alloc,
                            !.calls = ret.calls + 1, !.static = sv.st]
    /\ UNCHANGED <<heap, alloc>>

\* ------------------------------------------------ Nil.Of, zero values, AsPtr
\* oop.go:52-67: Nil.Of.  A nil argument gives the nil *int, boxed; any
\* other argument reaches reflect.ValueOf(i).Kind(), the kind of the dynamic
\* type, and panics unless that is Interface; reflect.Zero of an interface
\* type, boxed, is nil.
NilIntPtr == [t |-> PtrTo(Named("int")), v |-> 0]
NilOf(i) ==
  IF i = NilAny THEN CastResult(FALSE, NilIntPtr, FALSE)
  ELSE IF Kind(ValueOf(i).val.t) # "interface" THEN CastPanic
  ELSE CastNone

\* oop.go:282, 288 and 292: reflect.Zero(t).Interface(): nil for an interface
\* type, else the value of type t with every field zero (the nil pointer for
\* a pointer type).
Zero(t) == IF Kind(t) = "interface" THEN NilAny ELSE [t |-> t, v |-> 0]

\* oop.go:276-299: NullOrZeroInterface and its alias NilInterface.
\* reflect.TypeOf(i) is the dynamic type of the argument, nil for nil.
NullOrZeroInterface(i) ==
  IF i = NilAny THEN NilAny
  ELSE IF Kind(i.t) = "interface" THEN Zero(i.t)
  ELSE Zero(i.t)

\* oop.go:269-271: AsPtr.  Value.Pointer panics unless the kind is chan,
\* func, map, pointer, slice or unsafe.Pointer (so also for nil); else it is
\* the address the value holds.  AsPtrOrNull is the variant that answers the
\* null address where Value.Pointer panics.
UnsafePointer(a) == [t |-> Named("unsafeptr"), v |-> a]
AsPtrOrNull(obj) ==
  CastResult(FALSE, UnsafePointer(IF obj = NilAny THEN 0 ELSE obj.v), FALSE)
AsPtr(obj) ==
  IF ~ValueOf(obj).valid THEN CastPanic
  ELSE IF Kind(obj.t) \in {"chan", "func", "map", "ptr", "slice", "unsafeptr"}
  THEN CastResult(FALSE, UnsafePointer(obj.v), FALSE)
  ELSE CastPanic

\* What a call with the variable sv leaves
AfterCall(op, sv, r) ==
  /\ ret' = [NoRet EXCEPT !.op = op, !.obj = ToAny(sv), !.static = sv.st,
                          !.fault = r.fault, !.res = r.res, !.pre = alloc,
                          !.calls = ret.calls + 1]
  /\ UNCHANGED <<heap, alloc>>

\* A call Nil{}.Of(i)
NilOfStep ==
  /\ ret.calls < MaxCalls
  /\ \E sv \in StaticValues : AfterCall("NilOf", sv, NilOf(ToAny(sv)))

\* A call NullOrZeroInterface(i) or NilInterface(i)
NullOrZeroStep ==
  /\ ret.calls < MaxCalls
  /\ \E sv \in StaticValues :
       AfterCall("NullOrZero", sv,
                 CastResult(FALSE, NullOrZeroInterface(ToAny(sv)), FALSE))

\* A call AsPtr(obj)
AsPtrStep ==
  /\ ret.calls < MaxCalls
  /\ \E sv \in StaticValues : AfterCall("AsPtr", sv, AsPtr(ToAny(sv)))

\* ------------------------------------------------- descriptors and handles
\* oop.go:166-174: makeClassInfo.  Every call builds a new ClassInfo; the
\* record holds the fields the function sets (Vtables, IsClass and Deinit are
\* left nil, so hasDeinit is FALSE).  makeClassInfoFreshID is the variant
\* that numbers the descriptors instead of taking the identity from the type.
makeClassInfoFreshID(classType) ==
  [TypeName |-> TypeName(classType), TypeID |-> Len(infos) + 1,
   Offset |-> 0, hasDeinit |-> FALSE]
makeClassInfo(classType) ==
  [TypeName |-> TypeName(classType), TypeID |-> RtypeAddr(classType),
   Offset |-> 0, hasDeinit |-> FALSE]

\* An entry of infos: the ClassInfo and the type makeClassInfo was called for.
InfoEntry(classType) == [info |-> makeClassInfo(classType), forType |-> classType]

\* A Klass (oop.go:77-81): Info is the index in infos of the ClassInfo the
\* header points to (0: no ClassInfo of this program).
NoKlass == [Info |-> 0, Allocator |-> 0, Class |-> NilAny]

\* The types and initializers New is called with.  The initializer is nil, a
\* pointer to an object that exists, or a plain struct value; New does not
\* compare it with classType.
KlassTypes == {Named("TestStruct"), Named("TestStruct2")}
Allocators == {0}
Initializers(classType) ==
  {NilAny}
  \cup {[t |-> PtrTo(heap[a].t), v |-> a] : a \in alloc}
  \cup {[t |-> classType, v |-> v] : v \in Vals}

Idle == [active |-> FALSE, Info |-> 0, Allocator |-> 0, classType |-> NoType,
         init |-> NilAny]

\* The last call on a handle: h is the handle, addr the address passed or
\* returned, none a nil result, klass the Klass returned, handles the number
\* of handles that existed at the call.
NoKRet ==
  [op |-> "none", h |-> 0, addr |-> 0, typ |-> NoType, fault |-> FALSE,
   none |-> FALSE, klass |-> NoKlass, outcome |-> "none", calls |-> 0,
   handles |-> 0]

\* An ObjectWrapper (friendly.go:46-48): klass is the handle it points to
\* (0: nil).  init, made and destroyed are history, not fields: the
\* initializer CreateObject was called with, whether CreateObject made the
\* wrapper, and whether Destroy has been called on it.
NoWrapper == [klass |-> 0, init |-> NilAny, made |-> FALSE, destroyed |-> FALSE]

\* The last call on the factory or on a wrapper: w is the wrapper, arg the
\* argument, res and err the results, none a nil wrapper returned.
NoWRet ==
  [op |-> "none", w |-> 0, arg |-> NilAny, res |-> NilAny, err |-> FALSE,
   fault |-> FALSE, none |-> FALSE, calls |-> 0]

Handles == DOMAIN klasses
Callers == 1..NumCallers
InNew == {c \in Callers : pending[c].active}

Init ==
  /\ InitHeap
  /\ infos = <<>>
  /\ klasses = <<>>
  /\ pending = [c \in Callers |-> Idle]
  /\ kret = NoKRet
  /\ deinitCalls = <<>>
  /\ hookRuns = <<>>
  /\ releases = <<>>
  /\ wrappers = <<>>
  /\ wret = NoWRet

\* The caller creates an object of a type New is called with
AllocInstance ==
  \E ty \in KlassTypes, v \in Vals :
    LET a == FreshAddr IN
    /\ a # 0
    /\ heap' = [heap EXCEPT ![a] = [t |-> ty, v |-> v]]
    /\ alloc' = alloc \cup {a}
    /\ UNCHANGED ret

\* oop.go:86-91: caller c enters New; makeClassInfo builds the descriptor.
NewEnter(c) ==
  /\ ~pending[c].active
  /\ Len(infos) < MaxInfos
  /\ Len(klasses) + Cardinality(InNew) < MaxKlass
  /\ \E allocator \in Allocators, classType \in KlassTypes :
     \E init \in Initializers(classType) :
       /\ infos' = Append(infos, InfoEntry(classType))
       /\ pending' = [pending EXCEPT ![c] =
            [active |-> TRUE, Info |-> Len(infos) + 1, Allocator |-> allocator,
             classType |-> classType, init |-> init]]
  /\ UNCHANGED <<heap, alloc, ret, klasses, kret, deinitCalls, hookRuns, releases>>

\* oop.go:189-205: initClass sets each settable field that is zero to zero.
initClass(x) == [x EXCEPT !.v = IF @ = 0 THEN 0 ELSE @]

\* oop.go:97: reflect.New(classType), the zero value in new storage
ZeroOf(classType) == [t |-> classType, v |-> 0]

\* oop.go:93-99: the Class of the new handle: the initializer if there is
\* one, else a pointer to the new instance.  NewClassAlways is the variant
\* that points to a new instance whatever the initializer.
NewClassAlways(classType, init, fresh) == [t |-> PtrTo(classType), v |-> fresh]
NewClass(classType, init, fresh) ==
  IF init # NilAny THEN init ELSE [t |-> PtrTo(classType), v |-> fresh]

\* oop.go:86-91 and 101: the handle New returns
NewKlass(info, allocator, classType, init, fresh) ==
  [Info |-> info, Allocator |-> allocator,
   Class |-> NewClass(classType, init, fresh)]

\* oop.go:97-98: the storage after New: with no initializer, the new
\* instance, passed through initClass, at the fresh address
HeapAfterNew(classType, init, fresh) ==
  IF init = NilAny
  THEN [heap EXCEPT ![fresh] = initClass(ZeroOf(classType))]
  ELSE heap
AllocAfterNew(init, fresh) ==
  IF init = NilAny THEN alloc \cup {fresh} ELSE alloc

\* oop.go:93-101: caller c leaves New with the handle.
NewReturn(c) ==
  LET p == pending[c]
      fresh == FreshAddr
  IN
  /\ p.active
  /\ p.init = NilAny => fresh # 0
  /\ heap' = HeapAfterNew(p.classType, p.init, fresh)
  /\ alloc' = AllocAfterNew(p.init, fresh)
  /\ klasses' = Append(klasses,
       NewKlass(p.Info, p.Allocator, p.classType, p.init, fresh))
  /\ deinitCalls' = Append(deinitCalls, 0)
  /\ hookRuns' = Append(hookRuns, 0)
  /\ releases' = Append(releases, 0)
  /\ pending' = [pending EXCEPT ![c] = Idle]
  /\ UNCHANGED <<ret, infos, kret>>

\* oop.go:85-102: a call of New by a caller that no other call overlaps.
NewStep ==
  /\ Len(infos) < MaxInfos
  /\ Len(klasses) < MaxKlass
  /\ \E allocator \in Allocators, classType \in KlassTypes :
     \E init \in Initializers(classType) :
       LET fresh == FreshAddr IN
       /\ init = NilAny => fresh # 0
       /\ infos' = Append(infos, InfoEntry(classType))
       /\ heap' = HeapAfterNew(classType, init, fresh)
       /\ alloc' = AllocAfterNew(init, fresh)
       /\ klasses' = Append(klasses,
            NewKlass(Len(infos) + 1, allocator, classType, init, fresh))
  /\ deinitCalls' = Append(deinitCalls, 0)
  /\ hookRuns' = Append(hookRuns, 0)
  /\ releases' = Append(releases, 0)
  /\ UNCHANGED <<ret, pending, kret>>

\* oop.go:151-153: Klass.Ptr.  Value.Pointer panics unless the kind is chan,
\* func, map, pointer, slice or unsafe.Pointer (so also for a nil Class).
PointerKinds == {"chan", "func", "map", "ptr", "slice", "unsafeptr"}
KlassPtr(class) ==
  IF class # NilAny /\ Kind(class.t) \in PointerKinds
  THEN [fault |-> FALSE, addr |-> class.v]
  ELSE [fault |-> TRUE, addr |-> 0]

PtrStep ==
  /\ kret.calls < MaxCalls
  /\ \E h \in Handles :
    /\ kret' = [NoKRet EXCEPT !.op = "Ptr", !.h = h, !.calls = kret.calls + 1,
                              !.fault = KlassPtr(klasses[h].Class).fault,
                              !.addr = KlassPtr(klasses[h].Class).addr]
    /\ UNCHANGED <<heap, alloc, ret, infos, klasses, pending, deinitCalls,
                   hookRuns, releases>>

\* oop.go:157-162: Klass.Deinit.  The body is empty: no hook is run, nothing
\* is released, nothing is recorded, and the call returns.
DeinitStep ==
  \E h \in Handles :
    /\ deinitCalls[h] < MaxDeinit
    /\ deinitCalls' = [deinitCalls EXCEPT ![h] = @ + 1]
    /\ kret' = [NoKRet EXCEPT !.op = "Deinit", !.h = h, !.calls = kret.calls]
    /\ UNCHANGED <<heap, alloc, ret, infos, klasses, pending, hookRuns, releases>>

\* oop.go:114-125: From for a type named TestStruct: a new Klass with a new
\* ClassInfo, no allocator, and as Class a pointer of that type to classPtr.
FromByName(classPtr, classType) ==
  [Info |-> Len(infos) + 1, Allocator |-> 0,
   Class |-> [t |-> PtrTo(classType), v |-> classPtr]]

\* oop.go:128-146: From for every other type reads a Klass at classPtr minus
\* the offset of the Class field (oop.go:178-185), where no Klass is: the
\* words it takes for klass.Class are those of the object at classPtr, and
\* Header and Allocator are whatever precedes the object.  What the build can
\* do: find the first word zero, take klass.Class for nil and return the
\* pointer to that non-Klass ("dangling"); return a new Klass filled with the
\* words found ("garbage"); or fault, on the read or, in a build with pointer
\* checks (-race, -d=checkptr), on the arithmetic ("fault").
GarbageValue(word) == [t |-> [n |-> "garbage", d |-> 0], v |-> word]
FromByOffsetOutcomes(classPtr) ==
  IF classPtr \notin alloc THEN {"dangling", "garbage", "fault"}
  ELSE IF heap[classPtr].v = 0 THEN {"dangling", "fault"}
  ELSE {"garbage", "fault"}
FromByOffset(classPtr, outcome) ==
  IF outcome = "garbage"
  THEN [Info |-> 0, Allocator |-> 0, Class |-> GarbageValue(heap[classPtr].v)]
  ELSE NoKlass

\* oop.go:106-147: From(classPtr, classType)
FromStep ==
  /\ kret.calls < MaxCalls
  /\ \E classPtr \in Addr \cup {0}, classType \in KlassTypes :
    IF classPtr = 0 THEN
      /\ kret' = [NoKRet EXCEPT !.op = "From", !.typ = classType, !.none = TRUE,
                                !.calls = kret.calls + 1,
                                !.handles = Len(klasses)]
      /\ UNCHANGED <<heap, alloc, ret, infos, klasses, pending, deinitCalls,
                     hookRuns, releases>>
    ELSE IF TypeName(classType) = "TestStruct" THEN
      /\ Len(infos) < MaxInfos
      /\ infos' = Append(infos, InfoEntry(classType))
      /\ kret' = [NoKRet EXCEPT !.op = "From", !.addr = classPtr,
                                !.typ = classType, !.outcome = "byName",
                                !.calls = kret.calls + 1,
                                !.handles = Len(klasses),
                                !.klass = FromByName(classPtr, classType)]
      /\ UNCHANGED <<heap, alloc, ret, klasses, pending, deinitCalls,
                     hookRuns, releases>>
    ELSE
      \E outcome \in FromByOffsetOutcomes(classPtr) :
        /\ kret' = [NoKRet EXCEPT !.op = "From", !.addr = classPtr,
                                  !.typ = classType, !.outcome = outcome,
                                  !.calls = kret.calls + 1,
                                  !.handles = Len(klasses),
                                  !.fault = (outcome = "fault"),
                                  !.klass = FromByOffset(classPtr, outcome)]
        /\ UNCHANGED <<heap, alloc, ret, infos, klasses, pending, deinitCalls,
                       hookRuns, releases>>

\* ------------------------------------------- ObjectFactory, ObjectWrapper
\* The initializers CreateObject is called with: nil, a pointer to an object
\* that exists, a nil pointer, a plain struct value.  The struct types and
\* interfaces of oop_test.go stand for TestDog, TestCat and TestAnimal of
\* friendly.go, which have the same shape.
WrapInitializers ==
  {NilAny}
  \cup {[t |-> PtrTo(heap[a].t), v |-> a] : a \in alloc}
  \cup {[t |-> PtrTo(ty), v |-> 0] : ty \in KlassTypes}
  \cup {[t |-> ty, v |-> v] : ty \in KlassTypes, v \in Vals}

\* The arguments ObjectWrapper.As is called with: nil, an int, and nil
\* pointers to interface types, to pointers to them, to int and to a struct.
InterfacePtrs ==
  {NilAny, [t |-> Named("int"), v |-> 1]}
  \cup {[t |-> [n |-> n, d |-> d], v |-> 0] :
          n \in IfaceNames, d \in 1..MaxDepth}
  \cup {[t |-> PtrTo(Named(n)), v |-> 0] : n \in {"int", "TestStruct"}}

Wrappers == DOMAIN wrappers

\* friendly.go:31-34: the type New is called with
ObjType(initializer) ==
  IF Kind(initializer.t) = "ptr" THEN ElemT(initializer.t) ELSE initializer.t

\* friendly.go:24-42: CreateObject(initializer).  The factory's allocator is
\* nil (friendly.go:15-19).
CreateObject ==
  \E initializer \in WrapInitializers :
    IF initializer = NilAny THEN
      /\ wret' = [NoWRet EXCEPT !.op = "CreateObject", !.none = TRUE,
                                !.calls = wret.calls]
      /\ UNCHANGED <<heap, alloc, ret, infos, klasses, pending, kret,
                     deinitCalls, hookRuns, releases, wrappers>>
    ELSE
      LET objType == ObjType(initializer)
          fresh == FreshAddr
      IN
      /\ Len(wrappers) < MaxWrap
      /\ Len(infos) < MaxInfos
      /\ Len(klasses) < MaxKlass
      /\ infos' = Append(infos, InfoEntry(objType))
      /\ heap' = HeapAfterNew(objType, initializer, fresh)
      /\ alloc' = AllocAfterNew(initializer, fresh)
      /\ klasses' = Append(klasses,
           NewKlass(Len(infos) + 1, 0, objType, initializer, fresh))
      /\ deinitCalls' = Append(deinitCalls, 0)
      /\ hookRuns' = Append(hookRuns, 0)
      /\ releases' = Append(releases, 0)
      /\ wrappers' = Append(wrappers,
           [klass |-> Len(klasses) + 1, init |-> initializer, made |-> TRUE,
            destroyed |-> FALSE])
      /\ wret' = [NoWRet EXCEPT !.op = "CreateObject", !.arg = initializer,
                                !.w = Len(wrappers) + 1, !.calls = wret.calls]
      /\ UNCHANGED <<ret, pending, kret>>

\* friendly.go:206 and 216: the wrappers the tests build themselves,
\* &ObjectWrapper{klass: nil} and &ObjectWrapper{klass: &Klass{Class: nil}}
LiteralWrapper ==
  /\ Len(wrappers) < MaxWrap
  /\ \E withKlass \in BOOLEAN :
       IF withKlass THEN
         /\ Len(klasses) < MaxKlass
         /\ klasses' = Append(klasses, NoKlass)
         /\ deinitCalls' = Append(deinitCalls, 0)
         /\ hookRuns' = Append(hookRuns, 0)
         /\ releases' = Append(releases, 0)
         /\ wrappers' = Append(wrappers,
              [NoWrapper EXCEPT !.klass = Len(klasses) + 1])
       ELSE
         /\ wrappers' = Append(wrappers, NoWrapper)
         /\ UNCHANGED <<klasses, deinitCalls, hookRuns, releases>>
  /\ UNCHANGED <<heap, alloc, ret, infos, pending, kret, wret>>

\* friendly.go:54-90: ObjectWrapper.As: the error returns, in the order of
\* the code ("" when none is taken and Cast is called)
WrapAsError(o, interfacePtr) ==
  IF interfacePtr = NilAny THEN "interfacePtr cannot be nil"
  ELSE IF o.klass = 0 \/ klasses[o.klass].Class = NilAny
  THEN "object is not initialized"
  ELSE IF Kind(interfacePtr.t) # "ptr"
  THEN "interfacePtr must be a pointer to an interface type"
  ELSE IF Kind(ElemT(interfacePtr.t)) # "interface"
  THEN "interfacePtr must be a pointer to an interface type"
  ELSE ""

\* friendly.go:54-90: o.As(interfacePtr)
WrapAs ==
  /\ wret.calls < MaxCalls
  /\ \E w \in Wrappers, interfacePtr \in InterfacePtrs :
       LET o == wrappers[w]
           e == WrapAsError(o, interfacePtr)
           fresh == FreshAddr
           r == IF e # "" THEN CastNone
                ELSE Cast(klasses[o.klass].Class, ElemT(interfacePtr.t), fresh)
       IN
       /\ r.copy => fresh # 0
       /\ heap' = IF r.copy
                  THEN [heap EXCEPT ![fresh] = SetCopy(klasses[o.klass].Class)]
                  ELSE heap
       /\ alloc' = IF r.copy THEN alloc \cup {fresh} ELSE alloc
       /\ wret' = [NoWRet EXCEPT !.op = "As", !.w = w, !.arg = interfacePtr,
                                 !.res = r.res, !.err = (e # ""),
                                 !.fault = r.fault,
                                 !.calls = wret.calls + 1]
  /\ UNCHANGED <<ret, infos, klasses, pending, kret, deinitCalls, hookRuns,
                 releases, wrappers>>

\* friendly.go:93-98: o.Destroy(): Deinit on the handle, if there is one,
\* then klass = nil.  DestroyKeep is the variant that keeps the handle.
DestroyKeep(o) == [o EXCEPT !.destroyed = TRUE]
Destroy(o) == [o EXCEPT !.klass = 0, !.destroyed = TRUE]

DestroyStep ==
  \E w \in Wrappers :
    LET o == wrappers[w] IN
    /\ deinitCalls' = IF o.klass # 0
                      THEN [deinitCalls EXCEPT ![o.klass] = @ + 1]
                      ELSE deinitCalls
    /\ wrappers' = [wrappers EXCEPT ![w] = Destroy(o)]
    /\ wret' = [NoWRet EXCEPT !.op = "Destroy", !.w = w,
                              !.calls = wret.calls]
    /\ UNCHANGED <<heap, alloc, ret, infos, klasses, pending, kret, hookRuns,
                   releases>>

\* friendly.go:101-106: o.GetUnderlyingObject()
GetUnderlyingObject(o) ==
  IF o.klass = 0 THEN NilAny ELSE klasses[o.klass].Class

GetUnderlyingStep ==
  /\ wret.calls < MaxCalls
  /\ \E w \in Wrappers :
       wret' = [NoWRet EXCEPT !.op = "GetUnderlyingObject", !.w = w,
                              !.res = GetUnderlyingObject(wrappers[w]),
                              !.calls = wret.calls + 1]
  /\ UNCHANGED <<heap, alloc, ret, infos, klasses, pending, kret, deinitCalls,
                 hookRuns, releases, wrappers>>

Caller ==
  \/ AllocStruct /\ UNCHANGED klassVars
  \/ AllocPointer /\ UNCHANGED klassVars
  \/ WriteField /\ UNCHANGED klassVars

CastNext == (Caller \/ (CastStep /\ UNCHANGED klassVars)) /\ UNCHANGED wrapVars
CastSpec == Init /\ [][CastNext]_vars

AsNext == (Caller \/ (AsStep /\ UNCHANGED klassVars)) /\ UNCHANGED wrapVars
AsSpec == Init /\ [][AsNext]_vars

NilNext == (Caller \/ (IsNilStep /\ UNCHANGED klassVars)) /\ UNCHANGED wrapVars
NilSpec == Init /\ [][NilNext]_vars

UtilNext ==
  \/ Caller /\ UNCHANGED wrapVars
  \/ NilOfStep /\ UNCHANGED klassVars /\ UNCHANGED wrapVars
  \/ NullOrZeroStep /\ UNCHANGED klassVars /\ UNCHANGED wrapVars
  \/ AsPtrStep /\ UNCHANGED klassVars /\ UNCHANGED wrapVars
UtilSpec == Init /\ [][UtilNext]_vars

\* The wrapper's life, call after call
WrapNext ==
  \/ AllocInstance /\ UNCHANGED klassVars /\ UNCHANGED wrapVars
  \/ CreateObject
  \/ LiteralWrapper
  \/ WrapAs
  \/ DestroyStep
  \/ GetUnderlyingStep
WrapSpec == Init /\ [][WrapNext]_vars

\* The handle's life, call after call
Next ==
  \/ AllocInstance /\ UNCHANGED klassVars /\ UNCHANGED wrapVars
  \/ NewStep /\ UNCHANGED wrapVars
  \/ PtrStep /\ UNCHANGED wrapVars
  \/ FromStep /\ UNCHANGED wrapVars
  \/ DeinitStep /\ UNCHANGED wrapVars
Spec == Init /\ [][Next]_vars

\* Callers inside New at the same time
RaceNext ==
  \/ AllocInstance /\ UNCHANGED klassVars /\ UNCHANGED wrapVars
  \/ \E c \in Callers : NewEnter(c) /\ UNCHANGED wrapVars
  \/ \E c \in Callers : NewReturn(c) /\ UNCHANGED wrapVars
RaceSpec == Init /\ [][RaceNext]_vars

\* ================================================================ claims
\* The type a handle was constructed with
TypeOfHandle(h) == infos[klasses[h].Info].forType

\* The storage a cast's result refers to (0: the result carries its value
\* itself) and the field found there in heap h.
StorageOf(x) == IF IsPtr(x) THEN x.v ELSE 0
FieldIn(h, x) == IF IsPtr(x) THEN h[x.v].v ELSE x.v

\* The type reached by dereferencing a pointer value, else the value's own.
DerefType(x) == IF IsPtr(x) THEN ElemT(x.t) ELSE x.t

\* C1: for every handle h constructed by New with type T and not
\* deinitialized, From(h.Ptr(), T) returns, without fault, a handle whose
\* Class refers to the storage h's Class refers to, with the same contents.
C1_FromInvertsPtr ==
  \A h \in Handles :
    (/\ kret.op = "From"
     /\ h <= kret.handles
     /\ deinitCalls[h] = 0
     /\ ~KlassPtr(klasses[h].Class).fault
     /\ kret.addr = KlassPtr(klasses[h].Class).addr
     /\ kret.typ = TypeOfHandle(h))
    => /\ ~kret.fault
       /\ ~kret.none
       /\ StorageOf(kret.klass.Class) = StorageOf(klasses[h].Class)
       /\ FieldIn(heap, kret.klass.Class) = FieldIn(heap, klasses[h].Class)

\* C2: the second call of Deinit on a handle faults, and no handle's Class
\* is released twice.
C2_SecondDeinitFaults ==
  /\ (kret.op = "Deinit" /\ deinitCalls[kret.h] >= 2) => kret.fault
  /\ \A h \in Handles : releases[h] <= 1

\* C3: once Deinit has been called on a handle, its deinit hook has run
\* exactly once if its descriptor has one, and its Class has been released
\* through the allocator exactly once; before that, and ever, neither more
\* than once.
C3_FirstDeinitReleasesOnce ==
  \A h \in Handles :
    /\ hookRuns[h] <= 1
    /\ releases[h] <= 1
    /\ deinitCalls[h] >= 1 =>
         /\ releases[h] = 1
         /\ hookRuns[h] = IF infos[klasses[h].Info].info.hasDeinit THEN 1 ELSE 0

\* C4: any two descriptors makeClassInfo built for the same type, whenever
\* and whatever was built in between, carry the same TypeID and TypeName.
C4_SameTypeSameIdentity ==
  \A i, j \in DOMAIN infos :
    infos[i].forType = infos[j].forType =>
      /\ infos[i].info.TypeID = infos[j].info.TypeID
      /\ infos[i].info.TypeName = infos[j].info.TypeName

\* Two descriptors of one type with a descriptor of another type built
\* between them.
C4_Witness ==
  \E i, j, k \in DOMAIN infos :
    /\ i < j
    /\ j < k
    /\ infos[i].forType = infos[k].forType
    /\ infos[j].forType # infos[i].forType
    /\ infos[i].info.TypeID = infos[k].info.TypeID

\* C5: at most one descriptor is ever created for a type, and the handles
\* of one type all point to it.
C5_OneDescriptorPerType ==
  /\ \A i, j \in DOMAIN infos : infos[i].forType = infos[j].forType => i = j
  /\ \A g, h \in Handles :
       TypeOfHandle(g) = TypeOfHandle(h) => klasses[g].Info = klasses[h].Info

\* C6: for every concrete type T and interface C that *T implements, Cast of
\* a *T to C does not fault, is not nil and returns the very pointer it was
\* given, so calling C's method through the result gives what calling it
\* through the argument gives.
C6_Case ==
  /\ ret.op = "Cast"
  /\ ret.obj.t.d = 1
  /\ ret.obj.t.n \in StructNames
  /\ Kind(ret.target) = "interface"
  /\ Implements(ret.obj.t, ret.target)

C6_CastOfReference ==
  C6_Case =>
    /\ ~ret.fault
    /\ ret.res # NilAny
    /\ ret.res = ret.obj
    /\ GetValue(ret.res) = GetValue(ret.obj)

\* Cast(&TestStruct2{Value: 1}, TestInterface) gave back the pointer, through
\* which GetValue returns 2.
C6_Witness ==
  /\ C6_Case
  /\ ret.obj.t.n = "TestStruct2"
  /\ ret.obj.v # 0
  /\ ret.res = ret.obj
  /\ GetValue(ret.res) = 2

\* C7: Cast writes to no storage that existed before the call; given a plain
\* struct value of a type T with *T implementing the interface, it returns,
\* without fault, a result of T's fields that shares no storage with the
\* caller (a pointer to a cell allocated by the call, or the value itself),
\* so that afterwards a write through the result leaves the caller's variable
\* unchanged and a write to the caller's variable leaves the result's
\* storage unchanged.
C7_Case(r) ==
  /\ r.op = "Cast"
  /\ Kind(r.obj.t) = "struct"
  /\ Kind(r.target) = "interface"
  /\ Implements(PtrTo(r.obj.t), r.target)

C7_CastStep ==
  (ret' # ret /\ ret'.op = "Cast") =>
    /\ \A a \in alloc : heap'[a] = heap[a]
    /\ C7_Case(ret') =>
         /\ ~ret'.fault
         /\ ret'.res # NilAny
         /\ DerefType(ret'.res) = ret'.obj.t
         /\ StorageOf(ret'.res) \notin alloc
         /\ FieldIn(heap', ret'.res) = ret'.obj.v

C7_LaterStep ==
  (ret' = ret /\ C7_Case(ret) /\ ret.src # 0) =>
    LET r == StorageOf(ret.res)
        s == ret.src
    IN /\ r # s
       /\ (r # 0 /\ heap'[r] # heap[r]) => heap'[s] = heap[s]
       /\ (r # 0 /\ heap'[s] # heap[s]) => heap'[r] = heap[r]

C7_CopyIsIndependent == [][C7_CastStep /\ C7_LaterStep]_vars

\* After Cast of the value of a caller's variable, a write has made the
\* variable and the copy differ.
C7_Witness ==
  /\ C7_Case(ret)
  /\ ret.src # 0
  /\ IsPtr(ret.res)
  /\ heap[ret.res.v].v # heap[ret.src].v

\* C8: Cast of any non-nil value (plain, pointer or nil pointer) to an
\* interface returns nil, without fault, whenever none of its four rules
\* applies.
C8_NoRule(obj, targetType) ==
  /\ ~CastDirect(obj, targetType)
  /\ ~CastElem(obj, targetType)
  /\ ~CastAddr(obj, targetType)
  /\ ~AssignableTo(obj.t, targetType)

C8_NoMatchGivesNone ==
  (/\ ret.op = "Cast"
   /\ ret.obj # NilAny
   /\ Kind(ret.target) = "interface"
   /\ C8_NoRule(ret.obj, ret.target))
  => (~ret.fault /\ ret.res = NilAny)

\* C9: As(value, T) for a concrete T returns nil, without fault, when the
\* dereferenced type of value is not assignable to T; otherwise it returns,
\* without fault, a *T that is value itself when value is a pointer and a
\* pointer to a cell allocated by the call, holding value's fields, when
\* value is a plain value.
C9_Step ==
  (/\ ret' # ret
   /\ ret'.op = "As"
   /\ ret'.obj # NilAny
   /\ Kind(ret'.target) # "interface")
  => /\ ~ret'.fault
     /\ IF ~AssignableTo(DerefType(ret'.obj), ret'.target)
        THEN ret'.res = NilAny
        ELSE /\ ret'.res.t = PtrTo(ret'.target)
             /\ ret'.res.v # 0
             /\ IsPtr(ret'.obj) => ret'.res.v = ret'.obj.v
             /\ ~IsPtr(ret'.obj) =>
                  /\ ret'.res.v \notin alloc
                  /\ heap'[ret'.res.v] = ret'.obj

C9_AsContract == [][C9_Step]_vars

\* C10: IsNil(v) is true exactly when v is the untyped nil or v is of a
\* reference-like kind (pointer, slice, map, chan, func, interface) and is
\* empty; so it is true of a nil interface variable and of a nil pointer,
\* and false of every non-empty reference and of every struct or number,
\* the zero ones included.
C10_ReferenceLike == {"ptr", "slice", "map", "chan", "func", "interface"}

C10_IsNilExact ==
  ret.op = "IsNil" =>
    /\ ret.isNil = (\/ ret.obj = NilAny
                    \/ Kind(ret.obj.t) \in C10_ReferenceLike /\ ret.obj.v = 0)
    /\ (Kind(ret.static) = "interface" /\ ret.obj = NilAny) => ret.isNil
    /\ (Kind(ret.obj.t) \in {"struct", "int"}) => ~ret.isNil

\* IsNil of the zero TestStruct value returned false.
C10_Witness ==
  /\ ret.op = "IsNil"
  /\ ret.obj = [t |-> Named("TestStruct"), v |-> 0]
  /\ ~ret.isNil

\* C11: Nil.Of panics for every argument whose type is not an interface
\* type, and for every argument of an interface type, nil or holding a
\* value, returns without panic a value for which IsNil is true.
C11_NilOfContract ==
  ret.op = "NilOf" =>
    IF Kind(ret.static) = "interface"
    THEN ~ret.fault /\ IsNil(ret.res)
    ELSE ret.fault

\* C12: NullOrZeroInterface returns nil when the argument's type is an
\* interface type, and otherwise the zero value of the argument's type.
C12_NilForInterfaceElseZero ==
  ret.op = "NullOrZero" =>
    /\ ~ret.fault
    /\ IF Kind(ret.static) = "interface"
       THEN ret.res = NilAny
       ELSE ret.res.t = ret.obj.t /\ ret.res.v = 0

\* C13: AsPtr returns the address the argument refers to when the argument
\* is a pointer, slice, map, chan, func or unsafe pointer, and panics,
\* returning no address, for every other argument.
C13_ReferenceLike ==
  ret.obj # NilAny /\ (IsPtr(ret.obj) \/ ret.obj.t.n \in RefNames \cup {"unsafeptr"})
C13_AsPtrContract ==
  ret.op = "AsPtr" =>
    IF C13_ReferenceLike
    THEN /\ ~ret.fault
         /\ ret.res.v = ret.obj.v
         /\ (IsPtr(ret.obj) /\ ret.obj.v # 0) =>
              (ret.res.v \in alloc /\ PtrTo(heap[ret.res.v].t) = ret.obj.t)
    ELSE ret.fault /\ ret.res = NilAny
C13_Witness ==
  /\ ret.op = "AsPtr"
  /\ Kind(ret.obj.t) = "struct"
  /\ ret.obj.v # 0
  /\ ret.fault

\* C14: every call of New returns a new handle, not deinitialized, whose
\* Class is the initializer itself when one is passed (whatever its type,
\* with nothing allocated or written), and otherwise a non-nil pointer to a
\* newly allocated instance of classType whose fields are all zero.
C14_Returned(c) == pending[c].active /\ ~pending'[c].active
C14_Step(c) ==
  LET p == pending[c]
      h == Len(klasses')
      class == klasses'[h].Class
  IN
  /\ h = Len(klasses) + 1
  /\ deinitCalls'[h] = 0
  /\ infos[klasses'[h].Info].forType = p.classType
  /\ IF p.init # NilAny
     THEN class = p.init /\ heap' = heap /\ alloc' = alloc
     ELSE /\ class # NilAny
          /\ class.t = PtrTo(p.classType)
          /\ class.v \in alloc' \ alloc
          /\ heap'[class.v] = [t |-> p.classType, v |-> 0]
          /\ \A a \in alloc : heap'[a] = heap[a]
C14_NewOwnsInitOrZero ==
  [][\A c \in Callers : C14_Returned(c) => C14_Step(c)]_vars
C14_Witness ==
  \E h \in Handles, g \in Handles :
    /\ IsPtr(klasses[h].Class)
    /\ ElemT(klasses[h].Class.t) # TypeOfHandle(h)
    /\ heap[klasses[h].Class.v].v # 0
    /\ IsPtr(klasses[g].Class)
    /\ ElemT(klasses[g].Class.t) = TypeOfHandle(g)
    /\ heap[klasses[g].Class.v].v = 0

\* C15: ObjectWrapper.As returns a nil result and a non-nil error, without
\* panic, when its argument is nil, the wrapper has no handle or the handle
\* no Class, the argument is not a pointer, or it points to a non-interface
\* type; otherwise it returns a nil error and the result of Cast of the
\* Class to the pointed-to interface type.
C15_ErrorCase ==
  LET o == wrappers[wret.w] IN
  \/ wret.arg = NilAny
  \/ o.klass = 0
  \/ klasses[o.klass].Class = NilAny
  \/ ~IsPtr(wret.arg)
  \/ ElemT(wret.arg.t) \notin {Named(i) : i \in IfaceNames}
C15_WrapperAs ==
  wret.op = "As" =>
    /\ ~wret.fault
    /\ IF C15_ErrorCase
       THEN wret.res = NilAny /\ wret.err
       ELSE /\ ~wret.err
            /\ \E fresh \in Addr \cup {0} :
                 wret.res = Cast(klasses[wrappers[wret.w].klass].Class,
                                 ElemT(wret.arg.t), fresh).res

\* C16: CreateObject(nil) makes no wrapper; GetUnderlyingObject on a wrapper
\* made by CreateObject(x) and not destroyed returns x; once Destroy has been
\* called on a wrapper its klass is nil from then on, GetUnderlyingObject
\* returns nil and As returns an error; Destroy on a wrapper whose klass is
\* nil changes nothing and calls Deinit on no handle, so no handle has Deinit
\* called twice.
C16_Called(op) == wret' # wret /\ wret'.op = op
C16_Step ==
  /\ (C16_Called("CreateObject") /\ wret'.arg = NilAny) =>
       (wret'.none /\ wrappers' = wrappers /\ klasses' = klasses)
  /\ C16_Called("GetUnderlyingObject") =>
       LET o == wrappers[wret'.w] IN
       IF o.destroyed THEN wret'.res = NilAny
       ELSE o.made => (wret'.res = o.init /\ wret'.res # NilAny)
  /\ (C16_Called("As") /\ wrappers[wret'.w].destroyed) =>
       (wret'.err /\ wret'.res = NilAny /\ ~wret'.fault)
  /\ (C16_Called("Destroy") /\ wrappers[wret'.w].klass = 0) =>
       (/\ ~wret'.fault
        /\ deinitCalls' = deinitCalls
        /\ wrappers'[wret'.w].klass = 0
        /\ klasses' = klasses /\ heap' = heap)
  /\ \A w \in Wrappers :
       wrappers[w].destroyed => (wrappers'[w].destroyed /\ wrappers'[w].klass = 0)
  /\ \A w \in DOMAIN wrappers' :
       wrappers'[w].destroyed => wrappers'[w].klass = 0
  /\ \A h \in DOMAIN deinitCalls' : deinitCalls'[h] <= 1
C16_WrapperLifecycle == [][C16_Step]_vars
C16_Witness ==
  /\ wret.op = "As"
  /\ wrappers[wret.w].made
  /\ wrappers[wret.w].destroyed
  /\ wret.arg = [t |-> PtrTo(Named("TestInterface")), v |-> 0]
  /\ wret.err
  /\ \E h \in Handles : klasses[h].Class = wrappers[wret.w].init
                         /\ deinitCalls[h] = 1

\* C17: once Deinit has been called on a handle, every later call of Ptr or
\* Deinit on it faults, so Ptr never returns the address of the Class of a
\* deinitialized handle.
C17_NoUseAfterDeinit ==
  /\ (kret.op = "Ptr" /\ deinitCalls[kret.h] >= 1) =>
       (kret.fault /\ kret.addr = 0)
  /\ (kret.op = "Deinit" /\ deinitCalls[kret.h] >= 2) => kret.fault

\* C18: From returns nil, without fault, for every address that is not the
\* address of the Class of a handle that exists and has not been
\* deinitialized: the nil address, an address no handle owns, and the
\* address of the Class of a deinitialized handle.
C18_LiveAddress ==
  \E h \in Handles :
    /\ h <= kret.handles
    /\ deinitCalls[h] = 0
    /\ ~KlassPtr(klasses[h].Class).fault
    /\ KlassPtr(klasses[h].Class).addr = kret.addr
C18_FromUnknownIsNone ==
  (kret.op = "From" /\ ~C18_LiveAddress) =>
    (kret.none /\ ~kret.fault /\ kret.klass = NoKlass)

\* C19: for a target that is a concrete type, Cast returns its argument,
\* unchanged and as a bare value, when the argument's type is that type, and
\* nil when it is not; in neither case does it panic.
C19_ConcreteTarget ==
  (/\ ret.op = "Cast"
   /\ ret.obj # NilAny
   /\ ret.target.n \notin IfaceNames)
  => /\ ~ret.fault
     /\ ~ret.copy
     /\ ret.res = IF ret.obj.t = ret.target THEN ret.obj ELSE NilAny

====
